---- MODULE Spec2Model ----
(***************************************************************************)
(* A model of the angle utilities of angles.py: the unit conversions, the  *)
(* normalizer (normalize), the sexagesimal codec (deci2sexa, sexa2deci),   *)
(* the formatter (fmt_angle), the parser (phmsdms), the separation and     *)
(* the bearing of two points (sep, bear, CartesianVector) and the classes  *)
(* Angle, AlphaAngle, DeltaAngle and AngularPosition.                      *)
(*                                                                         *)
(* The functions are pure.  Each specification of a function draws the     *)
(* arguments of a call in Init and its actions apply the functions to      *)
(* them; SpecConstruct does so for the constructor of an angle.  SpecAngle *)
(* and SpecUnit are the state machine of one object: Init is the object    *)
(* after its constructor and each action is one assignment to a property,  *)
(* or a sum or difference that replaces the object by its result.          *)
(* SpecPosition is the state machine of one AngularPosition.               *)
(*                                                                         *)
(* Real numbers are exact: normalize works on integers, which stand for    *)
(* the reals on a grid (every step of normalize commutes with a positive   *)
(* rescaling of num, lower and upper); deci2sexa works on a fixed-point    *)
(* grid of 1 / (3600 * SubDenom) of the major unit; the unit conversions   *)
(* and the objects work on fractions, with radians counted in units of pi. *)
(* Floating-point rounding error is outside the model.                     *)
(***************************************************************************)
EXTENDS Integers, Sequences, FiniteSets, TLC

VARIABLES
    pc,          \* position of the caller: which call has returned
    val,         \* the value passed (num / deci / val)
    lower,       \* the lower limit passed: None or Some(l)
    upper,       \* the upper limit passed: None or Some(u)
    b,           \* the normalization flag passed
    pre,         \* precision passed to deci2sexa / fmt_angle
    trunc,       \* truncate instead of round
    upper_trim,  \* replace a major part equal to upper by lower
    todeg,       \* the flag passed to sexa2deci: multiply the result by 15
    raised,      \* the exception the last call raised, or "none"
    res,         \* what normalize or sexa2deci returned: <<>> (nothing) or <<r>>
    res2,        \* what normalize returned when applied to res
    sexa,        \* what deci2sexa returned, or what is passed to sexa2deci:
                 \* <<>> or <<sign, hd, mm, ss>>
    out,         \* what fmt_angle returned: <<>> or <<string>>
    cls,         \* the class of the angle object, "none" when there is no object
    raw,         \* the object's _raw: radians, a fraction of pi in lowest terms
    last,        \* the last assignment to the object: <<>> or <<accessor, value>>
    _ounit,      \* the object's _ounit, "none" when there is no object
    op,          \* the last operation on the object: "__init__", "assign" (a value or
                 \* a part of it), "ounit", "arith" (+ or -); "none" without an object
    alpha,       \* the _alpha of an AngularPosition: <<>> (no position) or <<its _raw>>
    delta,       \* the _delta of an AngularPosition: <<>> (no position) or <<its _raw>>
    args,        \* the arguments of a call to a constructor, phmsdms, sep or bear
    warned       \* the last call issued a warning

vars == <<pc, val, lower, upper, b, pre, trunc, upper_trim, todeg, raised, res, res2, sexa, out,
          cls, raw, last, _ounit, op, alpha, delta, args, warned>>

\* the variables of the angle object
objVars == <<cls, raw, last, _ounit, op>>

\* the variables of the angular position
posVars == <<alpha, delta>>

----------------------------------------------------------------------------
(* Bounds of the model *)

\* normalize is applied to the integers -MaxNum .. MaxNum
MaxNum == 14
\* range limits are drawn from -MaxLim .. MaxLim
MaxLim == 3
\* deci2sexa is applied to multiples of 1 / SubDenom of the sub part (a second)
SubDenom == 4
\* the major part of the values decomposed, and the limits of their ranges, reach MaxMajor
MaxMajor == 1
\* precisions are drawn from -MaxNegPre .. MaxPre
MaxPre == 1
MaxNegPre == 2
\* signs passed to sexa2deci are drawn from -MaxSign .. MaxSign
MaxSign == 2
\* the angles assigned to an object reach MaxHalf half turns and a half
MaxHalf == 2
\* the longitudes passed to sep and bear reach MaxQuarter quarter turns
MaxQuarter == 4

----------------------------------------------------------------------------
(* Values *)

\* Python's None for an omitted limit, and a limit that was given
None == <<>>
Some(x) == <<x>>

\* Python's abs on numbers
abs(x) == IF x < 0 THEN -x ELSE x

\* math.floor(p / q) for q > 0
floor(p, q) == p \div q

\* math.ceil(p / q) for q > 0
ceil(p, q) == -((-p) \div q)

\* the result of a call: a returned value or a raised exception
Return(v) == [err |-> "none", val |-> v]
Raise(e) == [err |-> e, val |-> 0]

----------------------------------------------------------------------------
(* normalize, src/angles.py lines 126-236 *)

\* total_length = abs(lower) + abs(upper), also the modulus of the wraparound branch
total_length(lo, up) == abs(lo) + abs(up)

\* a faulty wraparound branch that returns num without mapping upper to lower
wraparound_keeps_upper(num, lo, up) ==
    LET n1 == IF num > up \/ num = lo
              THEN lo + (abs(num + up) % total_length(lo, up))
              ELSE num
        n2 == IF n1 < lo \/ n1 = up
              THEN up - (abs(n1 - lo) % total_length(lo, up))
              ELSE n1
    IN  n2

\* the branch "if not b", after the range check (lines 214-220)
wraparound(num, lo, up) ==
    LET n1 == IF num > up \/ num = lo
              THEN lo + (abs(num + up) % total_length(lo, up))
              ELSE num
        n2 == IF n1 < lo \/ n1 = up
              THEN up - (abs(n1 - lo) % total_length(lo, up))
              ELSE n1
    IN  IF n2 = up THEN lo ELSE n2

\* a faulty bounce branch that reflects about upper instead of total_length / 2
bounce_reflects_at_upper(num, lo, up) ==
    LET T  == total_length(lo, up)
        n1 == IF num < -T THEN num + ceil(-num, 2 * T) * 2 * T ELSE num
        n2 == IF n1 > T THEN n1 - floor(n1, 2 * T) * 2 * T ELSE n1
        n3 == IF n2 > up THEN up - n2 ELSE n2
        n4 == IF n3 < lo THEN -T - n3 ELSE n3
    IN  n4

\* the branch "else" (lines 222-232); total_length > 0 or num = 0
bounce(num, lo, up) ==
    LET T  == total_length(lo, up)
        n1 == IF num < -T THEN num + ceil(-num, 2 * T) * 2 * T ELSE num
        n2 == IF n1 > T THEN n1 - floor(n1, 2 * T) * 2 * T ELSE n1
        n3 == IF n2 > up THEN T - n2 ELSE n2
        n4 == IF n3 < lo THEN -T - n3 ELSE n3
    IN  n4

\* normalize(num, lower, upper, b): the range check is made in the
\* wraparound branch only; the bounce branch divides by 2 * total_length
normalize(num, lo, up, bb) ==
    IF ~bb
    THEN IF lo >= up THEN Raise("ValueError") ELSE Return(wraparound(num, lo, up))
    ELSE IF total_length(lo, up) = 0 /\ num # 0
         THEN Raise("ZeroDivisionError")
         ELSE Return(bounce(num, lo, up))

----------------------------------------------------------------------------
(* deci2sexa, src/angles.py lines 254-388 *)

\* grid steps in one major unit (an hour or a degree): 3600 sub parts of SubDenom steps
Unit == 3600 * SubDenom

RECURSIVE pow10(_)
pow10(n) == IF n = 0 THEN 1 ELSE 10 * pow10(n - 1)

\* fp = 10 ** pre, the fraction fp_num(pre) / fp_den(pre)
fp_num(p) == IF p >= 0 THEN pow10(p) ELSE 1
fp_den(p) == IF p >= 0 THEN 1 ELSE pow10(-p)

\* round(x, 0) for x = p / q >= 0: to the nearest integer, a tie to the even one
round(p, q) ==
    LET f == p \div q
        r == p % q
    IN  IF 2 * r < q THEN f
        ELSE IF 2 * r > q THEN f + 1
        ELSE IF f % 2 = 0 THEN f ELSE f + 1

\* hd, f1 = divmod(deci, 1); mm, f2 = divmod(f1 * 60.0, 1); sf = f2 * 60.0
\* for deci = mag / Unit >= 0; sf is the fraction sf / Unit
split(mag) ==
    LET f1 == mag % Unit
        f2 == (f1 * 60) % Unit
    IN  [hd |-> mag \div Unit, mm |-> (f1 * 60) \div Unit, sf |-> f2 * 60]

\* a faulty sub part that is cut down even when trunc is not set
seconds_always_truncates(sf, p, tr) == (sf * fp_num(p)) \div (Unit * fp_den(p))

\* a faulty sub part that is rounded even when trunc is set
seconds_always_rounds(sf, p, tr) == round(sf * fp_num(p), Unit * fp_den(p))

\* the sub part in units of 1 / fp: truncated or rounded sf * fp (lines 359-365)
seconds(sf, p, tr) ==
    IF tr THEN (sf * fp_num(p)) \div (Unit * fp_den(p))
    ELSE round(sf * fp_num(p), Unit * fp_den(p))

\* a faulty carry that moves a full sub part into mm but never a full mm into hd
carry_stops_at_mm(hd, mm, ss, p) ==
    IF ss * fp_den(p) = 60 * fp_num(p)
    THEN [hd |-> hd, mm |-> mm + 1, ss |-> 0]
    ELSE [hd |-> hd, mm |-> mm, ss |-> ss]

\* "if ss == 60 * fp: mm += 1; ss = 0" and "if mm == 60: hd += 1; mm = 0"
carry(hd, mm, ss, p) ==
    LET full == ss * fp_den(p) = 60 * fp_num(p)
        m1 == IF full THEN mm + 1 ELSE mm
        s1 == IF full THEN 0 ELSE ss
    IN  IF m1 = 60
        THEN [hd |-> hd + 1, mm |-> 0, ss |-> s1]
        ELSE [hd |-> hd, mm |-> m1, ss |-> s1]

\* a sub part ss / fp, as the fraction num / den it is returned as
Sub(ss, p) == [num |-> ss * fp_den(p), den |-> fp_num(p)]

\* a faulty finish that keeps the sign of a result of all zeros
finish_keeps_sign(sign, c, p, lo, up, trim) ==
    LET hd == IF lo # None /\ up # None /\ trim /\ c.hd = up[1] THEN lo[1] ELSE c.hd
    IN  <<sign, hd, c.mm, Sub(c.ss, p)>>

\* a faulty finish whose upper_trim replaces a major part equal to upper by zero
finish_trims_to_zero(sign, c, p, lo, up, trim) ==
    LET hd == IF lo # None /\ up # None /\ trim /\ c.hd = up[1] THEN 0 ELSE c.hd
    IN  <<IF hd = 0 /\ c.mm = 0 /\ c.ss = 0 THEN 1 ELSE sign, hd, c.mm, Sub(c.ss, p)>>

\* lines 376-388: upper_trim replaces a major part equal to upper by lower, a
\* result of all zeros gets sign 1, and ss is divided by fp; c is the carried parts
finish(sign, c, p, lo, up, trim) ==
    LET hd == IF lo # None /\ up # None /\ trim /\ c.hd = up[1] THEN lo[1] ELSE c.hd
    IN  <<IF hd = 0 /\ c.mm = 0 /\ c.ss = 0 THEN 1 ELSE sign, hd, c.mm, Sub(c.ss, p)>>

\* lines 349-374 for the value deci = d / Unit: sign and magnitude, the parts,
\* the sub part to the required precision and the carry
decompose(d, p, tr) == carry(split(abs(d)).hd, split(abs(d)).mm, seconds(split(abs(d)).sf, p, tr), p)

\* deci2sexa(deci, pre, trunc, lower, upper, b, upper_trim) for deci = d / Unit;
\* lo and up are None or Some(limit), the limit in major units
deci2sexa(d, p, tr, lo, up, bb, trim) ==
    LET n == IF lo # None /\ up # None
             THEN normalize(d, lo[1] * Unit, up[1] * Unit, bb)
             ELSE Return(d)
    IN  IF n.err # "none" THEN Raise(n.err)
        ELSE Return(finish(IF n.val < 0 THEN -1 ELSE 1, decompose(n.val, p, tr), p, lo, up, trim))

----------------------------------------------------------------------------
(* Unit conversions, src/angles.py lines 66-123.  A number is a fraction      *)
(* [num, den] with den > 0; radians are counted in units of pi, so that       *)
(* math.degrees multiplies by 180 and math.radians divides by 180.            *)

RECURSIVE gcd(_, _)
gcd(m, n) == IF n = 0 THEN m ELSE gcd(n, m % n)

\* the number n / d in lowest terms
frac(n, d) == [num |-> n \div gcd(abs(n), d), den |-> d \div gcd(abs(n), d)]

\* a number that is already a fraction, in lowest terms
lowest(x) == frac(x.num, x.den)

\* an integer as a number
integer(n) == [num |-> n, den |-> 1]

r2d(r) == [num |-> 180 * r.num, den |-> r.den]
d2r(d) == [num |-> d.num, den |-> 180 * d.den]
h2d(h) == [num |-> 15 * h.num, den |-> h.den]
d2h(d) == [num |-> d.num, den |-> 15 * d.den]
arcs2d(arcs) == [num |-> arcs.num, den |-> 3600 * arcs.den]
d2arcs(d) == [num |-> 3600 * d.num, den |-> d.den]

\* a faulty h2r that takes the hours for degrees
h2r_without_h2d(h) == d2r(h)

h2r(h) == d2r(h2d(h))
r2h(r) == d2h(r2d(r))
arcs2r(arcs) == d2r(arcs2d(arcs))
r2arcs(r) == d2arcs(r2d(r))

----------------------------------------------------------------------------
(* sexa2deci, src/angles.py lines 391-462 *)

\* the sum of hd / 1.0, mm / 60.0 and ss / 3600.0 times sign, for integers hd and
\* mm and the fraction ss: a fraction whose denominator is 3600 * ss.den
signed_sum(sign, hd, mm, ss) ==
    [num |-> sign * (3600 * ss.den * hd + 60 * ss.den * mm + ss.num), den |-> 3600 * ss.den]

\* a faulty sexa2deci that accepts every sign
sexa2deci_any_sign(sign, hd, mm, ss, deg) ==
    IF deg THEN Return(h2d(signed_sum(sign, hd, mm, ss)))
    ELSE Return(signed_sum(sign, hd, mm, ss))

\* sexa2deci(sign, hd, mm, ss, todeg)
sexa2deci(sign, hd, mm, ss, deg) ==
    IF sign \notin {-1, 1} THEN Raise("ValueError")
    ELSE IF deg THEN Return(h2d(signed_sum(sign, hd, mm, ss)))
    ELSE Return(signed_sum(sign, hd, mm, ss))

----------------------------------------------------------------------------
(* fmt_angle, src/angles.py lines 465-541 *)

Digit(d) == <<"0", "1", "2", "3", "4", "5", "6", "7", "8", "9">>[d + 1]

\* str.format of a non-negative integer with "d"
RECURSIVE digits(_)
digits(n) == IF n < 10 THEN Digit(n) ELSE digits(n \div 10) \o Digit(n % 10)

\* zero padding on the left to width w
RECURSIVE zfill(_, _)
zfill(str, w) == IF Len(str) >= w THEN str ELSE zfill("0" \o str, w)

\* "{:02d}": at least two characters, the minus sign of a negative number counted
fmt_02d(n) == IF n < 0 THEN "-" \o digits(-n) ELSE zfill(digits(n), 2)

\* "{:0W.Pf}" with W = pre + 3 and P = pre >= 0, of the sub part sub.num / sub.den,
\* a whole number k of units of 10 ** -pre
fmt_0f(sub, p) ==
    LET k == (sub.num * pow10(p)) \div sub.den
        whole == digits(k \div pow10(p))
        text == IF p = 0 THEN whole
                ELSE whole \o "." \o zfill(digits(k % pow10(p)), p)
    IN  zfill(text, p + 3)

\* p.format(sign, *x[1:]) for the tuple x that deci2sexa returned (lines 538-541);
\* str.format rejects the precision of "{3:0W.Pf}" when pre is negative
render(x, s1, s2, s3, p) ==
    IF x.err # "none" THEN Raise(x.err)
    ELSE IF p < 0 THEN Raise("ValueError")
    ELSE Return((IF x.val[1] < 0 THEN "-" ELSE "+")
                \o fmt_02d(x.val[2]) \o s1
                \o fmt_02d(x.val[3]) \o s2
                \o fmt_0f(x.val[4], p) \o s3)

\* fmt_angle(val, s1, s2, s3, pre, trunc, lower, upper, b, upper_trim):
\* normalize with b, then deci2sexa with the range again and its default b = False
fmt_angle(v, s1, s2, s3, p, tr, lo, up, bb, trim) ==
    LET n == IF lo = None \/ up = None THEN Return(v)
             ELSE normalize(v, lo[1] * Unit, up[1] * Unit, bb)
    IN  IF n.err # "none" THEN Raise(n.err)
        ELSE render(deci2sexa(n.val, p, tr, lo, up, FALSE, trim), s1, s2, s3, p)

----------------------------------------------------------------------------
(* phmsdms, src/angles.py lines 544-723.  A float that was parsed is a       *)
(* record [neg, num, den]: the magnitude num / den and whether it was       *)
(* written with a minus sign, so that -0.0 is kept apart from 0.0.          *)

\* the character of str at position i, "" beyond its ends
Char(str, i) == IF 1 <= i /\ i <= Len(str) THEN SubSeq(str, i, i) ELSE ""

\* the classes of characters of the two patterns
IsDigit(c) == c \in {"0", "1", "2", "3", "4", "5", "6", "7", "8", "9"}
IsSign(c) == c \in {"-", "+"}

\* c occurs in str: the operator "in" on strings, for one character
Contains(str, c) == \E i \in 1 .. Len(str) : Char(str, i) = c

\* the position after the digits that start at position i
RECURSIVE DigitsEnd(_, _)
DigitsEnd(str, i) == IF IsDigit(Char(str, i)) THEN DigitsEnd(str, i + 1) ELSE i

\* [0-9]*\.?[0-9]+ matched at position i: the position after the match, 0 when
\* there is none.  k is the position after the leading digits
unsigned_number(str, i, k) ==
    IF Char(str, k) = "." /\ IsDigit(Char(str, k + 1)) THEN DigitsEnd(str, k + 1)
    ELSE IF k > i THEN k
    ELSE 0

\* pattern2, [-+]?[0-9]*\.?[0-9]+, matched at position i: the position after
\* the match, 0 when there is none
pattern2(str, i) ==
    IF IsSign(Char(str, i))
        THEN unsigned_number(str, i + 1, DigitsEnd(str, i + 1))
        ELSE unsigned_number(str, i, DigitsEnd(str, i))

\* the position after the characters [^0-9\-+]* that start at position i
RECURSIVE TailEnd(_, _)
TailEnd(str, i) ==
    IF i <= Len(str) /\ ~IsDigit(Char(str, i)) /\ ~IsSign(Char(str, i))
        THEN TailEnd(str, i + 1)
        ELSE i

\* pattern1.findall(str) from position i on: every number with the characters
\* that follow it up to the next digit or sign
RECURSIVE pattern1_findall(_, _)
pattern1_findall(str, i) ==
    IF i > Len(str) THEN <<>>
    ELSE IF pattern2(str, i) = 0 THEN pattern1_findall(str, i + 1)
    ELSE <<SubSeq(str, i, TailEnd(str, pattern2(str, i)) - 1)>>
             \o pattern1_findall(str, TailEnd(str, pattern2(str, i)))

\* str.replace(c, "") for one character c
RECURSIVE Remove(_, _)
Remove(str, c) ==
    IF str = "" THEN ""
    ELSE IF Char(str, 1) = c THEN Remove(SubSeq(str, 2, Len(str)), c)
    ELSE Char(str, 1) \o Remove(SubSeq(str, 2, Len(str)), c)

\* str without the blanks at its end, as float() strips them
RECURSIVE rstrip(_)
rstrip(str) ==
    IF str # "" /\ Char(str, Len(str)) = " " THEN rstrip(SubSeq(str, 1, Len(str) - 1))
    ELSE str

\* float(str) does not raise ValueError, for a string that starts with a
\* number: nothing follows the number but blanks, or a point that ends a number
\* written without one (float("12.") is 12.0)
IsFloat(str) ==
    /\ pattern2(str, 1) # 0
    /\ \/ pattern2(str, 1) = Len(rstrip(str)) + 1
       \/ /\ pattern2(str, 1) = Len(rstrip(str))
          /\ Char(str, Len(rstrip(str))) = "."
          /\ ~Contains(SubSeq(str, 1, pattern2(str, 1) - 1), ".")

\* the value of one digit
DigitValue(c) == CHOOSE d \in 0 .. 9 : Digit(d) = c

\* the digits of str read as one natural number, the sign and the point skipped
RECURSIVE Natural(_, _, _)
Natural(str, i, acc) ==
    IF i > Len(str) THEN acc
    ELSE IF IsDigit(Char(str, i)) THEN Natural(str, i + 1, 10 * acc + DigitValue(Char(str, i)))
    ELSE Natural(str, i + 1, acc)

\* the number of digits after the point of str
RECURSIVE Decimals(_, _)
Decimals(str, i) ==
    IF i > Len(str) THEN 0
    ELSE IF Char(str, i) = "." THEN Len(str) - i
    ELSE Decimals(str, i + 1)

\* float(str) for the text of a number, [-+]?[0-9]*\.?[0-9]*
ToFloat(str) ==
    [neg |-> Char(str, 1) = "-", num |-> Natural(str, 1, 0), den |-> pow10(Decimals(str, 1))]

\* float(valun) for a string that starts with a number and passes IsFloat
float(str) == ToFloat(SubSeq(str, 1, IF Char(str, pattern2(str, 1)) = "."
                                         THEN pattern2(str, 1) ELSE pattern2(str, 1) - 1))

\* float(valun[m.start():m.end()]) for m = pattern2.search(valun): the number
\* that valun starts with
number_of(valun) == ToFloat(SubSeq(valun, 1, pattern2(valun, 1) - 1))

\* _fill_right_not_none with v: the parts with v put to the right of the last
\* part that is filled, or ValueError when the third part is filled already
_fill_right_not_none(parts, v) ==
    IF parts[3] # None THEN Raise("ValueError")
    ELSE IF parts[2] # None THEN Return([parts EXCEPT ![3] = Some(v)])
    ELSE IF parts[1] = None THEN Return([parts EXCEPT ![1] = Some(v)])
    ELSE Return([parts EXCEPT ![2] = Some(v)])

\* the parts after the suffix tests of the except branch, for a valun that is
\* not a pure number: h or d fill the first part, m or ' the second, s or "
\* the third
by_suffix(parts, valun) ==
    [i \in 1 .. 3 |->
        IF \/ i = 1 /\ (Contains(valun, "h") \/ Contains(valun, "d"))
           \/ i = 2 /\ (Contains(valun, "m") \/ Contains(valun, "'"))
           \/ i = 3 /\ (Contains(valun, "s") \/ Contains(valun, "\""))
            THEN Some(number_of(valun))
            ELSE parts[i]]

\* the units after the suffix tests: d is tested after h, and a string without
\* either is in degrees
units_by_suffix(units, valun) ==
    IF Contains(valun, "d") THEN "degrees"
    ELSE IF Contains(valun, "h") THEN "hours"
    ELSE IF units = "None" THEN "degrees"
    ELSE units

\* the state of the loop over hdlist: the parts, the units and whether
\* ValueError was raised
LoopState(parts, units, err) == [parts |-> parts, units |-> units, err |-> err]

\* one pass of the loop over hdlist.  A pure number is put by position, and a
\* ValueError of _fill_right_not_none is caught by the except clause, which
\* finds no suffix and leaves the parts alone.  Any other valun is handled
\* by its suffix; with a colon in it the number is put by position, and a
\* ValueError raised there leaves the function
one_valun(st, valun) ==
    IF st.err # "none" THEN st
    ELSE IF IsFloat(valun) THEN
        IF _fill_right_not_none(st.parts, float(valun)).err = "none"
            THEN LoopState(_fill_right_not_none(st.parts, float(valun)).val,
                           units_by_suffix(st.units, valun), "none")
            ELSE LoopState(st.parts, units_by_suffix(st.units, valun), "none")
    ELSE IF ~Contains(valun, ":") THEN
        LoopState(by_suffix(st.parts, valun), units_by_suffix(st.units, valun), "none")
    ELSE IF ~IsFloat(Remove(valun, ":")) THEN
        LoopState(st.parts, st.units, "ValueError")
    ELSE IF _fill_right_not_none(by_suffix(st.parts, valun),
                                 float(Remove(valun, ":"))).err # "none" THEN
        LoopState(st.parts, st.units, "ValueError")
    ELSE
        LoopState(_fill_right_not_none(by_suffix(st.parts, valun),
                                       float(Remove(valun, ":"))).val,
                  units_by_suffix(st.units, valun), "none")

\* the loop over hdlist, from its element i on
RECURSIVE for_valun(_, _, _)
for_valun(st, hdlist, i) ==
    IF i > Len(hdlist) THEN st
    ELSE for_valun(one_valun(st, hdlist[i]), hdlist, i + 1)

\* "i and i < 0.0" for a part i: it is filled, not zero, and negative
IsNegative(part) == part # None /\ part[1].num # 0 /\ part[1].neg

\* a faulty search for the sign that accepts any number of negative parts
find_sign_accepts_all(parts) ==
    IF \E i \in 1 .. 3 : IsNegative(parts[i]) THEN Return(-1) ELSE Return(1)

\* the sign found by the loop over the parts: -1 with one negative part, +1
\* with none, ValueError with more
find_sign(parts) ==
    IF Cardinality({i \in 1 .. 3 : IsNegative(parts[i])}) > 1 THEN Raise("ValueError")
    ELSE IF \E i \in 1 .. 3 : IsNegative(parts[i]) THEN Return(-1)
    ELSE Return(1)

\* vals: abs of a part that is filled, and 0.0 for one that is not
vals_of(parts) ==
    [i \in 1 .. 3 |->
        IF parts[i] = None THEN integer(0) ELSE frac(parts[i][1].num, parts[i][1].den)]

\* what phmsdms returns after the loop over hdlist ended in the state st
result_of(st) ==
    IF st.err # "none" THEN Raise(st.err)
    ELSE IF find_sign(st.parts).err # "none" THEN Raise("ValueError")
    ELSE Return([sign |-> find_sign(st.parts).val, units |-> st.units,
                 vals |-> vals_of(st.parts), parts |-> st.parts])

\* phmsdms(hmsdms); the string is in lower case already
phmsdms(hmsdms) ==
    result_of(for_valun(LoopState(<<None, None, None>>, "None", "none"),
                        pattern1_findall(hmsdms, 1), 1))

----------------------------------------------------------------------------
(* Angle, AlphaAngle and DeltaAngle, src/angles.py lines 1144-1734 *)

\* normalize applied to the number x in lowest terms, for the limits lo / den
\* and up / den
normalize_number(x, lo, up, den, bb) ==
    frac(normalize(x.num * den, lo * x.den, up * x.den, bb).val, x.den * den)

\* a faulty r2r that leaves its argument as it is
r2r_unchanged(r) == lowest(r)

\* r2r(r) = normalize(r, 0, 2 * math.pi), lines 249-251
r2r(r) == normalize_number(lowest(r), 0, 2, 1, FALSE)

\* the number 90 in units of pi, NinetyNum / NinetyDen, with pi taken as 22 / 7
NinetyNum == 315
NinetyDen == 11

\* the _raw that self._setnorm(v) stores, for self of the class c
_setnorm(c, v) ==
    IF c = "AlphaAngle" THEN r2r(v)
    ELSE IF c = "DeltaAngle"
    THEN normalize_number(lowest(v), -NinetyNum, NinetyNum, NinetyDen, TRUE)
    ELSE lowest(v)

\* the getters of the properties r, d, h and arcs, of the stored _raw
__getr(self) == self
__getd(self) == lowest(r2d(self))
__geth(self) == lowest(r2h(self))
__getarcs(self) == lowest(r2arcs(self))

\* a number of major units on the grid of deci2sexa, as its count of grid steps
steps(x) == x.num * (Unit \div x.den)

\* AlphaAngle.hms and DeltaAngle.dms of the stored _raw, at the object's pre and trunc
__gethms(self, p, tr) ==
    deci2sexa(steps(__geth(self)), p, tr, Some(0), Some(24), FALSE, TRUE).val
__getdms(self, p, tr) ==
    deci2sexa(steps(__getd(self)), p, tr, None, None, FALSE, FALSE).val

\* Angle.__init__ with one of the keywords r, d, h, or with none: the _raw of
\* the new object
__init__(c, kw, v) ==
    IF kw = "r" THEN _setnorm(c, v)
    ELSE IF kw = "d"
    THEN _setnorm(c, d2r(lowest(sexa2deci(1, v.num, 0, integer(0), FALSE).val)))
    ELSE IF kw = "h"
    THEN _setnorm(c, h2r(lowest(sexa2deci(1, v.num, 0, integer(0), FALSE).val)))
    ELSE integer(0)

\* x + y and -x of numbers
\* the names of the units, and the index into them that the constructor keeps
\* for the keyword it used
_units == <<"radians", "degrees", "hours">>
_iunit(kw) == IF kw = "d" THEN 1 ELSE IF kw = "h" THEN 2 ELSE 0

\* a variant of the ounit property that returns the unit of the constructor
\* for every class
__getounit_of_input(c, u) == u

\* the ounit property: the _ounit of an Angle, and the fixed private __ounit of
\* an AlphaAngle or a DeltaAngle
__getounit(c, u) ==
    IF c = "AlphaAngle" THEN "hours"
    ELSE IF c = "DeltaAngle" THEN "degrees"
    ELSE u

plus(x, y) == frac(x.num * y.den + y.num * x.den, x.den * y.den)
minus(x) == [num |-> -x.num, den |-> x.den]

----------------------------------------------------------------------------
(* CartesianVector, sep and bear, src/angles.py lines 1737-1798 and 824-988. *)
(* The angles passed are whole quarter turns, whose cosine and sine are -1,  *)
(* 0 or 1, so that the components of every vector are integers; an angle     *)
(* returned is a fraction of pi.                                             *)

\* the whole number of quarter turns that the angle a is
quarters(a) == (2 * a.num) \div a.den

\* math.cos(a) and math.sin(a) of a whole number of quarter turns
cos(a) == <<1, 0, -1, 0>>[(quarters(a) % 4) + 1]
sin(a) == <<0, 1, 0, -1>>[(quarters(a) % 4) + 1]

\* math.sqrt(n) of a square number
sqrt(n) == CHOOSE k \in 0 .. n : k * k = n

\* math.atan2(y, x) for y = 0, x = 0 or abs(y) = abs(x)
atan2(y, x) ==
    IF y = 0 THEN (IF x < 0 THEN integer(1) ELSE integer(0))
    ELSE IF x = 0 THEN (IF y < 0 THEN frac(-1, 2) ELSE frac(1, 2))
    ELSE IF x > 0 THEN (IF y < 0 THEN frac(-1, 4) ELSE frac(1, 4))
    ELSE (IF y < 0 THEN frac(-3, 4) ELSE frac(3, 4))

\* the vector with the components x, y and z
CartesianVector(x, y, z) == [x |-> x, y |-> y, z |-> z]

\* v.from_s(r, alpha, delta)
from_s(r, al, de) ==
    CartesianVector(r * cos(de) * cos(al), r * cos(de) * sin(al), r * sin(de))

\* u.dot(v)
dot(u, v) == u.x * v.x + u.y * v.y + u.z * v.z

\* a faulty cross product that leaves out the second term of n.x
cross_without_term(u, v) ==
    CartesianVector(u.y * v.z, -(u.x * v.z - u.z * v.x), u.x * v.y - u.y * v.x)

\* u.cross(v)
cross(u, v) ==
    CartesianVector(u.y * v.z - u.z * v.y, -(u.x * v.z - u.z * v.x), u.x * v.y - u.y * v.x)

\* a faulty modulus that adds the components instead of their squares
mod_of_sum(v) == v.x + v.y + v.z

\* v.mod
mod(v) == sqrt(v.x * v.x + v.y * v.y + v.z * v.z)

\* tol = 1e-15 is 10 to the power -TolExponent
TolExponent == 15

\* n * 10 ^ e < d for the integers n and d, computed without the power: n is
\* below d / 10 ^ e if and only if it is below that quotient rounded up
RECURSIVE LessScaled(_, _, _)
LessScaled(n, d, e) == IF e = 0 THEN n < d ELSE LessScaled(n, (d + 9) \div 10, e - 1)

\* abs(x) < tol for the number x
below_tol(x) == LessScaled(abs(x.num), x.den, TolExponent)

\* a number of radians that the angle x is not below, with pi taken as 3:
\* no angle that atan2 returns here lies between tol / pi and tol / 3
radians(x) == [num |-> 3 * x.num, den |-> x.den]

\* sep(a1, b1, a2, b2)
sep(a1, b1, a2, b2) ==
    IF below_tol(radians(atan2(mod(cross(from_s(1, a1, b1), from_s(1, a2, b2))),
                               dot(from_s(1, a1, b1), from_s(1, a2, b2)))))
    THEN integer(0)
    ELSE atan2(mod(cross(from_s(1, a1, b1), from_s(1, a2, b2))),
               dot(from_s(1, a1, b1), from_s(1, a2, b2)))

\* a faulty test for the pole that never fires
on_pole_never(v1, v0) == FALSE

\* abs(v1.cross(v0).mod) < tol: the first point is on the pole
on_pole(v1, v0) == below_tol(integer(abs(mod(cross(v1, v0)))))

\* the angle x between v12 and v10 with its sign, lines 980-987
quadrant(v12, x) ==
    IF below_tol(radians(IF v12.z < 0 THEN minus(x) ELSE x)) THEN integer(0)
    ELSE IF v12.z < 0 THEN minus(x)
    ELSE x

\* lines 969-978 of bear, for the vectors v1, v2 and v0
position_angle(v1, v2, v0) ==
    quadrant(cross(v1, v2),
             atan2(mod(cross(cross(v1, v2), cross(v1, v0))),
                   dot(cross(v1, v2), cross(v1, v0))))

\* bear(a1, b1, a2, b2): what it returns and whether it warns
bear(a1, b1, a2, b2) ==
    IF on_pole(from_s(1, a1, b1), from_s(1, integer(0), d2r(integer(90))))
    THEN [val |-> integer(0), warned |-> TRUE]
    ELSE [val |-> position_angle(from_s(1, a1, b1), from_s(1, a2, b2),
                                 from_s(1, integer(0), d2r(integer(90)))),
          warned |-> FALSE]

----------------------------------------------------------------------------
(* Callers *)

Limits == -MaxLim .. MaxLim

\* a caller about to call normalize with integer limits
InitNormalize ==
    /\ pc = "call_normalize"
    /\ val \in -MaxNum .. MaxNum
    /\ lower \in {Some(l) : l \in Limits}
    /\ upper \in {Some(u) : u \in Limits}
    /\ b \in BOOLEAN
    /\ pre = 3
    /\ trunc = FALSE
    /\ upper_trim = FALSE
    /\ todeg = FALSE
    /\ raised = "none"
    /\ res = <<>>
    /\ res2 = <<>>
    /\ sexa = <<>>
    /\ out = <<>>
    /\ cls = "none"
    /\ raw = <<>>
    /\ last = <<>>
    /\ _ounit = "none" /\ op = "none"
    /\ alpha = <<>> /\ delta = <<>>
    /\ args = <<>> /\ warned = FALSE

\* r = normalize(val, lower, upper, b)
CallNormalize ==
    /\ pc = "call_normalize"
    /\ lower # None /\ upper # None
    /\ LET r == normalize(val, lower[1], upper[1], b)
       IN  /\ raised' = r.err
           /\ res' = IF r.err = "none" THEN <<r.val>> ELSE <<>>
    /\ pc' = "normalized"
    /\ UNCHANGED <<val, lower, upper, b, pre, trunc, upper_trim, todeg, res2, sexa, out>>
    /\ UNCHANGED <<objVars, posVars, args, warned>>

\* normalize(r, lower, upper, b) on the value a first call returned
CallNormalizeAgain ==
    /\ pc = "normalized"
    /\ res # <<>>
    /\ LET r == normalize(res[1], lower[1], upper[1], b)
       IN  /\ raised' = r.err
           /\ res2' = IF r.err = "none" THEN <<r.val>> ELSE <<>>
    /\ pc' = "renormalized"
    /\ UNCHANGED <<val, lower, upper, b, pre, trunc, upper_trim, todeg, res, sexa, out>>
    /\ UNCHANGED <<objVars, posVars, args, warned>>

NextNormalize == CallNormalize \/ CallNormalizeAgain

SpecNormalize == InitNormalize /\ [][NextNormalize]_vars

\* the precisions passed
Precisions == -MaxNegPre .. MaxPre

\* minutes drawn for the values decomposed without a range
Minutes == {0, 29, 59}

\* values decomposed without a range: every sub part of the grid, in the
\* minutes above, for every major part up to MaxMajor, with either sign
DenseValues ==
    {s * (h * Unit + m * 60 * SubDenom + f) :
        s \in {-1, 1}, h \in 0 .. MaxMajor, m \in Minutes, f \in 0 .. (60 * SubDenom - 1)}

\* values decomposed with a range: the grid points next to every half major unit
NearValues ==
    {k * (Unit \div 2) + d :
        k \in -2 * (MaxMajor + 1) .. 2 * (MaxMajor + 1), d \in -(SubDenom \div 2) .. (SubDenom \div 2)}

\* a limit as the callers of deci2sexa and fmt_angle pass it, in major units
OptLimits == {None} \cup {Some(l) : l \in -MaxMajor .. MaxMajor}

\* a caller about to call deci2sexa or fmt_angle
InitSexa ==
    /\ pc = "call_sexa"
    /\ pre \in Precisions
    /\ trunc \in BOOLEAN
    /\ upper_trim \in BOOLEAN
    /\ \/ /\ lower = None /\ upper = None
          /\ b = FALSE
          /\ val \in DenseValues
       \/ /\ lower \in OptLimits /\ upper \in OptLimits
          /\ b \in BOOLEAN
          /\ val \in NearValues
    /\ todeg = FALSE
    /\ raised = "none"
    /\ res = <<>>
    /\ res2 = <<>>
    /\ sexa = <<>>
    /\ out = <<>>
    /\ cls = "none"
    /\ raw = <<>>
    /\ last = <<>>
    /\ _ounit = "none" /\ op = "none"
    /\ alpha = <<>> /\ delta = <<>>
    /\ args = <<>> /\ warned = FALSE

\* x = deci2sexa(val, pre, trunc, lower, upper, b, upper_trim)
CallDeci2sexa ==
    /\ pc = "call_sexa"
    /\ LET x == deci2sexa(val, pre, trunc, lower, upper, b, upper_trim)
       IN  /\ raised' = x.err
           /\ sexa' = IF x.err = "none" THEN x.val ELSE <<>>
    /\ pc' = "decomposed"
    /\ UNCHANGED <<val, lower, upper, b, pre, trunc, upper_trim, todeg, res, res2, out>>
    /\ UNCHANGED <<objVars, posVars, args, warned>>

\* s = fmt_angle(val, pre=pre, trunc=trunc, lower=lower, upper=upper, b=b,
\* upper_trim=upper_trim), with the default separators
CallFmtAngle ==
    /\ pc = "call_sexa"
    /\ LET x == fmt_angle(val, " ", " ", " ", pre, trunc, lower, upper, b, upper_trim)
       IN  /\ raised' = x.err
           /\ out' = IF x.err = "none" THEN <<x.val>> ELSE <<>>
    /\ pc' = "formatted"
    /\ UNCHANGED <<val, lower, upper, b, pre, trunc, upper_trim, todeg, res, res2, sexa>>
    /\ UNCHANGED <<objVars, posVars, args, warned>>

\* sexa2deci(*x) on the tuple x that deci2sexa returned
CallSexa2deciOnSexa ==
    /\ pc = "decomposed"
    /\ sexa # <<>>
    /\ LET d == sexa2deci(sexa[1], sexa[2], sexa[3], sexa[4], todeg)
       IN  /\ raised' = d.err
           /\ res' = IF d.err = "none" THEN <<d.val>> ELSE <<>>
    /\ pc' = "recomposed"
    /\ UNCHANGED <<val, lower, upper, b, pre, trunc, upper_trim, todeg, res2, sexa, out>>
    /\ UNCHANGED <<objVars, posVars, args, warned>>

NextSexa == CallDeci2sexa \/ CallFmtAngle \/ CallSexa2deciOnSexa

SpecSexa == InitSexa /\ [][NextSexa]_vars

\* the signs passed to sexa2deci
Signs == -MaxSign .. MaxSign

\* a caller about to call sexa2deci with a sign, integer major and minor parts
\* and a sub part of the grid
InitCompose ==
    /\ pc = "call_sexa2deci"
    /\ sexa \in {<<s, h, m, [num |-> k, den |-> SubDenom]>> :
                    s \in Signs, h \in 0 .. MaxMajor, m \in Minutes,
                    k \in 0 .. (60 * SubDenom - 1)}
    /\ todeg \in BOOLEAN
    /\ val = 0
    /\ lower = None /\ upper = None
    /\ b = FALSE
    /\ pre = 3
    /\ trunc = FALSE
    /\ upper_trim = FALSE
    /\ raised = "none"
    /\ res = <<>>
    /\ res2 = <<>>
    /\ out = <<>>
    /\ cls = "none"
    /\ raw = <<>>
    /\ last = <<>>
    /\ _ounit = "none" /\ op = "none"
    /\ alpha = <<>> /\ delta = <<>>
    /\ args = <<>> /\ warned = FALSE

\* d = sexa2deci(sign, hd, mm, ss, todeg)
CallSexa2deci ==
    /\ pc = "call_sexa2deci"
    /\ LET d == sexa2deci(sexa[1], sexa[2], sexa[3], sexa[4], todeg)
       IN  /\ raised' = d.err
           /\ res' = IF d.err = "none" THEN <<d.val>> ELSE <<>>
    /\ pc' = "composed"
    /\ UNCHANGED <<val, lower, upper, b, pre, trunc, upper_trim, todeg, res2, sexa, out>>
    /\ UNCHANGED <<objVars, posVars, args, warned>>

NextCompose == CallSexa2deci

SpecCompose == InitCompose /\ [][NextCompose]_vars

\* the arguments of normalize, deci2sexa, sexa2deci and fmt_angle, and what
\* the last two of them return, when none of them is called
funVars == <<val, lower, upper, b, pre, trunc, upper_trim, todeg, sexa, out>>
NoFunction ==
    /\ val = 0
    /\ lower = None /\ upper = None
    /\ b = FALSE
    /\ pre = 3
    /\ trunc = FALSE
    /\ upper_trim = FALSE
    /\ todeg = FALSE
    /\ sexa = <<>>
    /\ out = <<>>

\* no angle object, no angular position
NoObject == cls = "none" /\ raw = <<>> /\ last = <<>> /\ _ounit = "none" /\ op = "none"
NoPosition == alpha = <<>> /\ delta = <<>>

\* one part of a sexagesimal string: a number, with or without a minus sign,
\* and what follows it
Fields ==
    {s \o n \o x : s \in {"", "-"}, n \in {"0", "12"}, x \in {" ", ":", "d", "h", "m", "s"}}

\* the strings parsed: one, two or three parts, the strings of test_phmsdms
\* without their decimals, and strings with a fourth number, a plus sign, a
\* point, quotes, or no number at all
Strings ==
    Fields \cup {f \o g : f, g \in Fields} \cup {f \o g \o h : f, g, h \in Fields}
        \cup {"12", "12h", "12d13m14", "12d14ss", "14ss", "12h13m12s", "12:13:12s",
              "-12:13:12s", "12:13mm:12s", "-13m12s", "-12s", "-12:-13:12s",
              "-0 30 0", "-00d30m", "1 2 3 4", "+12 30 0", "12. 30", "12 . 30",
              "1.5 2", "-.5", "12'30\"", "-0.0d", "", "h"}

\* a string to parse
InitParse ==
    /\ pc = "call_phmsdms"
    /\ args \in {<<str>> : str \in Strings}
    /\ raised = "none"
    /\ res = <<>>
    /\ res2 = <<>>
    /\ warned = FALSE
    /\ NoFunction /\ NoObject /\ NoPosition

\* x = phmsdms(hmsdms)
Callphmsdms ==
    /\ pc = "call_phmsdms"
    /\ raised' = phmsdms(args[1]).err
    /\ res' = IF phmsdms(args[1]).err = "none" THEN <<phmsdms(args[1]).val>> ELSE <<>>
    /\ pc' = "parsed"
    /\ UNCHANGED <<funVars, objVars, posVars, args, warned, res2>>

\* the integer that the number x is, for the major and minor parts passed on
whole(x) == x.num \div x.den

\* sexa2deci(x['sign'], *x['vals']) for what phmsdms returned
compose(x) == sexa2deci(x.sign, whole(x.vals[1]), whole(x.vals[2]), x.vals[3], FALSE)

\* the first two of the vals are integers
WholeParts(x) == x.vals[1].den = 1 /\ x.vals[2].den = 1

\* d = sexa2deci(x['sign'], *x['vals'])
CallSexa2deciOnParsed ==
    /\ pc = "parsed" /\ raised = "none"
    /\ WholeParts(res[1])
    /\ res2' = <<lowest(compose(res[1]).val)>>
    /\ pc' = "parsed_composed"
    /\ UNCHANGED <<funVars, objVars, posVars, args, warned, res, raised>>

NextParse == Callphmsdms \/ CallSexa2deciOnParsed

SpecParse == InitParse /\ [][NextParse]_vars

\* the longitudes and latitudes passed to sep and bear: quarter turns from
\* -pi / 2 on, and from -pi to pi, which includes latitudes beyond the poles
Longitudes == {frac(q, 2) : q \in -1 .. MaxQuarter}
Latitudes == {frac(q, 2) : q \in -2 .. 2}

\* a caller about to call sep or bear with two points
InitSphere ==
    /\ pc \in {"call_sep", "call_bear"}
    /\ args \in {<<a1, b1, a2, b2>> : a1, a2 \in Longitudes, b1, b2 \in Latitudes}
    /\ raised = "none"
    /\ res = <<>>
    /\ res2 = <<>>
    /\ warned = FALSE
    /\ NoFunction /\ NoObject /\ NoPosition

\* s = sep(a1, b1, a2, b2)
CallSep ==
    /\ pc = "call_sep"
    /\ res' = <<sep(args[1], args[2], args[3], args[4])>>
    /\ pc' = "separated"
    /\ UNCHANGED <<funVars, objVars, posVars, args, warned, raised, res2>>

\* t = sep(a2, b2, a1, b1)
CallSepSwapped ==
    /\ pc = "separated"
    /\ res2' = <<sep(args[3], args[4], args[1], args[2])>>
    /\ pc' = "separated_both"
    /\ UNCHANGED <<funVars, objVars, posVars, args, warned, raised, res>>

\* x = bear(a1, b1, a2, b2)
CallBear ==
    /\ pc = "call_bear"
    /\ res' = <<bear(args[1], args[2], args[3], args[4]).val>>
    /\ warned' = bear(args[1], args[2], args[3], args[4]).warned
    /\ pc' = "borne"
    /\ UNCHANGED <<funVars, objVars, posVars, args, raised, res2>>

NextSphere == CallSep \/ CallSepSwapped \/ CallBear

SpecSphere == InitSphere /\ [][NextSphere]_vars

\* the classes of angle objects
Classes == {"Angle", "AlphaAngle", "DeltaAngle"}

\* the hours and degrees passed to AngularPosition as alpha and delta, and
\* the degrees assigned to the components: latitudes in range and one degree
\* beyond either pole
PositionHours == {integer(0), integer(11), integer(12), integer(25)}
PositionDegrees == {integer(-91), integer(-45), integer(0), integer(89), integer(91)}
LongitudeDegrees == {integer(-180), integer(0), integer(165), integer(345)}

\* p = AngularPosition(alpha=args[1], delta=args[2]), with two numbers
InitPosition ==
    /\ pc = "position"
    /\ args \in {<<h, d>> : h \in PositionHours, d \in PositionDegrees}
    /\ alpha = <<__init__("AlphaAngle", "h", args[1])>>
    /\ delta = <<__init__("DeltaAngle", "d", args[2])>>
    /\ op = "__init__"
    /\ cls = "none" /\ raw = <<>> /\ last = <<>> /\ _ounit = "none"
    /\ raised = "none"
    /\ res = <<>>
    /\ res2 = <<>>
    /\ warned = FALSE
    /\ NoFunction

\* what an operation on a position leaves alone
positionVars == <<pc, funVars, cls, raw, last, _ounit, res, res2, warned>>

\* p.alpha.d = v
alpha__setd ==
    /\ pc = "position"
    /\ \E v \in LongitudeDegrees :
           /\ alpha' = <<_setnorm("AlphaAngle", d2r(v))>>
           /\ args' = <<v>>
    /\ op' = "alpha.d"
    /\ raised' = "none"
    /\ UNCHANGED <<delta, positionVars>>

\* p.delta.d = v
delta__setd ==
    /\ pc = "position"
    /\ \E v \in PositionDegrees :
           /\ delta' = <<_setnorm("DeltaAngle", d2r(v))>>
           /\ args' = <<v>>
    /\ op' = "delta.d"
    /\ raised' = "none"
    /\ UNCHANGED <<alpha, positionVars>>

\* a variant of the setter of alpha without the test of the class
__setalpha_of_any_class ==
    /\ pc = "position"
    /\ \E c \in Classes, v \in LongitudeDegrees :
           /\ args' = <<c, v>>
           /\ alpha' = <<__init__(c, "d", v)>>
           /\ raised' = "none"
    /\ op' = "alpha"
    /\ UNCHANGED <<delta, positionVars>>

\* p.alpha = a, for an object a = c(d=v) of the class c
__setalpha ==
    /\ pc = "position"
    /\ \E c \in Classes, v \in LongitudeDegrees :
           /\ args' = <<c, v>>
           /\ IF c # "AlphaAngle"
              THEN raised' = "TypeError" /\ UNCHANGED alpha
              ELSE raised' = "none" /\ alpha' = <<__init__(c, "d", v)>>
    /\ op' = "alpha"
    /\ UNCHANGED <<delta, positionVars>>

\* p.delta = a, for an object a = c(d=v) of the class c
__setdelta ==
    /\ pc = "position"
    /\ \E c \in Classes, v \in PositionDegrees :
           /\ args' = <<c, v>>
           /\ IF c # "DeltaAngle"
              THEN raised' = "TypeError" /\ UNCHANGED delta
              ELSE raised' = "none" /\ delta' = <<__init__(c, "d", v)>>
    /\ op' = "delta"
    /\ UNCHANGED <<alpha, positionVars>>

NextPosition == alpha__setd \/ delta__setd \/ __setalpha \/ __setdelta

SpecPosition == InitPosition /\ [][NextPosition]_vars

\* whole degrees: up to MaxHalf half turns and none, 15 or 91 degrees more, with
\* either sign
AngleValues ==
    {s * (q * 180 + e) : s \in {-1, 1}, q \in 0 .. MaxHalf, e \in {0, 15, 91}}

\* the same angles in radians, degrees, hours and arcseconds
Radians == {frac(a, 180) : a \in AngleValues}
Degrees == {integer(a) : a \in AngleValues}
Hours == {frac(a, 15) : a \in AngleValues}
Arcseconds == {integer(3600 * a) : a \in AngleValues}

\* the sub parts assigned: the first and the last one of the grid
SubValues == {frac(1, SubDenom), frac(60 * SubDenom - 1, SubDenom)}

\* the numbers assigned to a major part and to a minor part: integers, and one
\* that is not
MajorValues == {integer(-1), integer(60), frac(1, 2)}
MinorValues == {integer(0), integer(59), frac(1, 2)}

\* the minor and sub parts assigned to a DeltaAngle, which leave it at whole degrees
WholeMinorValues == {integer(0), frac(1, 2)}
WholeSubValues == {integer(0)}

\* the tuples assigned to hms: with a sign of -1 or +1, with another sign, and
\* one that is too short
Tuples ==
    {<<s, k, 59, f>> : s \in {-1, 1}, k \in {23, 24}, f \in SubValues}
        \cup {<<s, 24, 59, frac(1, SubDenom)>> : s \in {0, MaxSign}}
        \cup {<<1, 0, 0>>}

\* the values of the keywords of the constructor: none, r, d or h, the last
\* two with the integers the tests pass
Keywords ==
    {<<"none", integer(0)>>} \cup {<<"r", v>> : v \in Radians}
        \cup {<<"d", v>> : v \in Degrees}
        \cup {<<"h", v>> : v \in {w \in Hours : w.den = 1}}

\* the keywords (r, d, h, mm, ss, sg) that the constructor allows
_keyws == {"r", "d", "h", "mm", "ss", "sg"}

\* the keywords of kwargs: kwargs[k] is <<>> for a keyword left out and <<v>>
\* for one passed with the value v; sg = None is left out, line 1156
given(kwargs) == {k \in DOMAIN kwargs : kwargs[k] # <<>>}

\* a variant of the if ... elif chain that tests h before d
branch_h_before_d(kwargs) ==
    IF "sg" \in given(kwargs) THEN "sg"
    ELSE IF "r" \in given(kwargs) THEN "r"
    ELSE IF "h" \in given(kwargs) THEN "h"
    ELSE IF "d" \in given(kwargs) THEN "d"
    ELSE "none"

\* the branch of the if ... elif chain of the constructor that runs
branch(kwargs) ==
    IF "sg" \in given(kwargs) THEN "sg"
    ELSE IF "r" \in given(kwargs) THEN "r"
    ELSE IF "d" \in given(kwargs) THEN "d"
    ELSE IF "h" \in given(kwargs) THEN "h"
    ELSE "none"

\* kwargs.get(k, 0.0)
get(kwargs, k) == IF kwargs[k] = <<>> THEN integer(0) ELSE kwargs[k][1]

\* sexa2deci(1, kwargs[k], kwargs.get('mm', 0.0), kwargs.get('ss', 0.0)), for
\* whole numbers kwargs[k] and mm
from_parts(kwargs, k) ==
    lowest(sexa2deci(1, whole(kwargs[k][1]), whole(get(kwargs, "mm")),
                     get(kwargs, "ss"), FALSE).val)

\* the object that the constructor leaves, or the exception it raises
Constructed(r, u, w) == [err |-> "none", raw |-> r, ounit |-> u, warned |-> w]
Failed(e) == [err |-> e, raw |-> integer(0), ounit |-> "none", warned |-> FALSE]

\* the branch of the constructor for sg, where x is what phmsdms returned
from_sg(c, x, others) ==
    IF x.err # "none" THEN Failed(x.err)
    ELSE IF x.val.units \notin {_units[i] : i \in 1 .. 3} THEN Failed("ValueError")
    ELSE IF x.val.units = "degrees"
    THEN Constructed(_setnorm(c, d2r(lowest(compose(x.val).val))), "degrees", others)
    ELSE Constructed(_setnorm(c, h2r(lowest(compose(x.val).val))), "hours", others)

\* Angle.__init__(self, sg=None, **kwargs), for self of the class c
Angle__init__(c, kwargs) ==
    IF ~(given(kwargs) \subseteq _keyws) THEN Failed("TypeError")
    ELSE IF branch(kwargs) = "sg"
    THEN from_sg(c, phmsdms(kwargs["sg"][1]), Cardinality(given(kwargs)) # 1)
    ELSE IF branch(kwargs) = "r"
    THEN Constructed(_setnorm(c, kwargs["r"][1]), "radians", Cardinality(given(kwargs)) # 1)
    ELSE IF branch(kwargs) = "d"
    THEN Constructed(_setnorm(c, d2r(from_parts(kwargs, "d"))), "degrees",
                     "h" \in given(kwargs))
    ELSE IF branch(kwargs) = "h"
    THEN Constructed(_setnorm(c, h2r(from_parts(kwargs, "h"))), "hours", FALSE)
    ELSE Constructed(integer(0), "radians", FALSE)

\* the strings passed as sg: hours, degrees, no unit named, three parts, two
\* negative parts, and no number at all
SexaStrings == {"12h", "-12d30m", "12", "1 2 3", "-12 -30 0", "abc"}

\* the keyword arguments passed to the constructor; x is a keyword that is
\* not one of _keyws
KeywordArguments ==
    [sg : {<<>>} \cup {<<s>> : s \in SexaStrings},
     r : {<<>>, <<frac(1, 2)>>, <<frac(5, 2)>>},
     d : {<<>>, <<integer(10)>>, <<integer(200)>>},
     h : {<<>>, <<integer(1)>>, <<integer(20)>>},
     mm : {<<>>, <<integer(30)>>},
     ss : {<<>>, <<frac(61, 2)>>},
     x : {<<>>, <<integer(1)>>}]

\* a caller about to construct an object of the class args[1] with the keyword
\* arguments args[2]
InitConstruct ==
    /\ pc = "call___init__"
    /\ args \in {<<c, kwargs>> : c \in Classes, kwargs \in KeywordArguments}
    /\ raised = "none"
    /\ res = <<>>
    /\ res2 = <<>>
    /\ warned = FALSE
    /\ NoFunction /\ NoObject /\ NoPosition

\* a = Angle(**kwargs), a = AlphaAngle(**kwargs) or a = DeltaAngle(**kwargs)
CallAngle__init__ ==
    /\ pc = "call___init__"
    /\ raised' = Angle__init__(args[1], args[2]).err
    /\ IF Angle__init__(args[1], args[2]).err = "none"
       THEN /\ cls' = args[1]
            /\ raw' = Angle__init__(args[1], args[2]).raw
            /\ _ounit' = Angle__init__(args[1], args[2]).ounit
            /\ warned' = Angle__init__(args[1], args[2]).warned
            /\ op' = "__init__"
       ELSE UNCHANGED <<cls, raw, _ounit, warned, op>>
    /\ pc' = "constructed"
    /\ UNCHANGED <<funVars, posVars, last, args, res, res2>>

NextConstruct == CallAngle__init__

SpecConstruct == InitConstruct /\ [][NextConstruct]_vars

\* an object of one of the classes, constructed
InitAngle ==
    /\ pc = "object"
    /\ cls \in Classes
    /\ \E k \in Keywords :
           /\ raw = __init__(cls, k[1], k[2])
           /\ last = IF k[1] = "none" THEN <<>> ELSE k
           /\ _ounit = _units[_iunit(k[1]) + 1]
    /\ op = "__init__"
    /\ alpha = <<>> /\ delta = <<>>
    /\ args = <<>> /\ warned = FALSE
    /\ pre = 3
    /\ trunc = FALSE
    /\ val = 0
    /\ lower = None /\ upper = None
    /\ b = FALSE
    /\ upper_trim = FALSE
    /\ todeg = FALSE
    /\ raised = "none"
    /\ res = <<>>
    /\ res2 = <<>>
    /\ sexa = <<>>
    /\ out = <<>>

\* what an assignment leaves alone
callVars ==
    <<pc, val, lower, upper, b, pre, trunc, upper_trim, todeg, res, res2, sexa, out, cls,
      alpha, delta, warned>>

\* self.r = v, self.d = v, self.h = v, self.arcs = v
__setr ==
    /\ pc = "object"
    /\ op' = "assign" /\ args' = <<>> /\ UNCHANGED _ounit
    /\ \E v \in Radians :
           /\ raw' = _setnorm(cls, v)
           /\ last' = <<"r", v>>
    /\ raised' = "none"
    /\ UNCHANGED callVars

__setd ==
    /\ pc = "object"
    /\ op' = "assign" /\ args' = <<>> /\ UNCHANGED _ounit
    /\ \E v \in Degrees :
           /\ raw' = _setnorm(cls, d2r(v))
           /\ last' = <<"d", v>>
    /\ raised' = "none"
    /\ UNCHANGED callVars

__seth ==
    /\ pc = "object"
    /\ op' = "assign" /\ args' = <<>> /\ UNCHANGED _ounit
    /\ \E v \in Hours :
           /\ raw' = _setnorm(cls, h2r(v))
           /\ last' = <<"h", v>>
    /\ raised' = "none"
    /\ UNCHANGED callVars

__setarcs ==
    /\ pc = "object"
    /\ op' = "assign" /\ args' = <<>> /\ UNCHANGED _ounit
    /\ \E v \in Arcseconds :
           /\ raw' = _setnorm(cls, arcs2r(v))
           /\ last' = <<"arcs", v>>
    /\ raised' = "none"
    /\ UNCHANGED callVars

\* the assignment self.h = v or self.d = v that the setters of the parts end
\* in, for a number v that need not be in lowest terms
assign_h(v) == raw' = _setnorm(cls, h2r(lowest(v))) /\ last' = <<>> /\ raised' = "none"
assign_d(v) == raw' = _setnorm(cls, d2r(lowest(v))) /\ last' = <<>> /\ raised' = "none"

\* a setter that raised: nothing is assigned
refuse(e) == raised' = e /\ UNCHANGED <<raw, last>>

\* AlphaAngle: self.hms = t
AlphaAngle__sethms ==
    /\ pc = "object" /\ cls = "AlphaAngle"
    /\ op' = "assign" /\ UNCHANGED _ounit
    /\ \E t \in Tuples :
           /\ args' = <<t>>
           /\ IF Len(t) # 4 THEN refuse("ValueError")
              ELSE IF t[1] \notin {-1, 1} THEN refuse("ValueError")
              ELSE assign_h(sexa2deci(t[1], t[2], t[3], t[4], FALSE).val)
    /\ UNCHANGED callVars

\* the tuples assigned to dms
DegreeTuples ==
    {<<s, 89, 0, integer(0)>> : s \in {-1, 1, MaxSign}} \cup {<<1, 0, 0>>}

\* DeltaAngle: self.dms = t.  The property dms is made of the getter alone, so
\* the assignment raises AttributeError and __setdms is never called
DeltaAngle__setdms ==
    /\ pc = "object" /\ cls = "DeltaAngle"
    /\ op' = "assign" /\ UNCHANGED _ounit
    /\ \E t \in DegreeTuples :
           /\ args' = <<t>>
           /\ refuse("AttributeError")
    /\ UNCHANGED callVars

\* AlphaAngle: self.sign = s, which is self.h *= s
AlphaAngle__setsign ==
    /\ pc = "object" /\ cls = "AlphaAngle"
    /\ op' = "assign" /\ args' = <<>> /\ UNCHANGED _ounit
    /\ \E s \in Signs :
           IF s \notin {-1, 1} THEN refuse("ValueError")
           ELSE assign_h([num |-> s * __geth(raw).num, den |-> __geth(raw).den])
    /\ UNCHANGED callVars

\* AlphaAngle: self.hh = v
AlphaAngle__sethh ==
    /\ pc = "object" /\ cls = "AlphaAngle"
    /\ op' = "assign" /\ args' = <<>> /\ UNCHANGED _ounit
    /\ \E v \in MajorValues :
           IF v.den # 1 THEN refuse("ValueError")
           ELSE assign_h(sexa2deci(__gethms(raw, pre, trunc)[1], v.num,
                                   __gethms(raw, pre, trunc)[3],
                                   __gethms(raw, pre, trunc)[4], FALSE).val)
    /\ UNCHANGED callVars

\* AlphaAngle: self.mm = v
AlphaAngle__setmm ==
    /\ pc = "object" /\ cls = "AlphaAngle"
    /\ op' = "assign" /\ args' = <<>> /\ UNCHANGED _ounit
    /\ \E v \in MinorValues :
           IF v.den # 1 THEN refuse("ValueError")
           ELSE assign_h(sexa2deci(__gethms(raw, pre, trunc)[1],
                                   __gethms(raw, pre, trunc)[2], v.num,
                                   __gethms(raw, pre, trunc)[4], FALSE).val)
    /\ UNCHANGED callVars

\* AlphaAngle: self.ss = v
AlphaAngle__setss ==
    /\ pc = "object" /\ cls = "AlphaAngle"
    /\ op' = "assign" /\ args' = <<>> /\ UNCHANGED _ounit
    /\ \E v \in SubValues :
           assign_h(sexa2deci(__gethms(raw, pre, trunc)[1],
                              __gethms(raw, pre, trunc)[2],
                              __gethms(raw, pre, trunc)[3], v, FALSE).val)
    /\ UNCHANGED callVars

\* DeltaAngle: self.sign = s, which is self.d *= s
DeltaAngle__setsign ==
    /\ pc = "object" /\ cls = "DeltaAngle"
    /\ op' = "assign" /\ args' = <<>> /\ UNCHANGED _ounit
    /\ \E s \in Signs :
           IF s \notin {-1, 1} THEN refuse("ValueError")
           ELSE assign_d([num |-> s * __getd(raw).num, den |-> __getd(raw).den])
    /\ UNCHANGED callVars

\* DeltaAngle: self.dd = v
DeltaAngle__setdd ==
    /\ pc = "object" /\ cls = "DeltaAngle"
    /\ op' = "assign" /\ args' = <<>> /\ UNCHANGED _ounit
    /\ \E v \in MajorValues :
           IF v.den # 1 THEN refuse("ValueError")
           ELSE assign_d(sexa2deci(__getdms(raw, pre, trunc)[1], v.num,
                                   __getdms(raw, pre, trunc)[3],
                                   __getdms(raw, pre, trunc)[4], FALSE).val)
    /\ UNCHANGED callVars

\* DeltaAngle: self.mm = v
DeltaAngle__setmm ==
    /\ pc = "object" /\ cls = "DeltaAngle"
    /\ op' = "assign" /\ args' = <<>> /\ UNCHANGED _ounit
    /\ \E v \in WholeMinorValues :
           IF v.den # 1 THEN refuse("ValueError")
           ELSE assign_d(sexa2deci(__getdms(raw, pre, trunc)[1],
                                   __getdms(raw, pre, trunc)[2], v.num,
                                   __getdms(raw, pre, trunc)[4], FALSE).val)
    /\ UNCHANGED callVars

\* DeltaAngle: self.ss = v
DeltaAngle__setss ==
    /\ pc = "object" /\ cls = "DeltaAngle"
    /\ op' = "assign" /\ args' = <<>> /\ UNCHANGED _ounit
    /\ \E v \in WholeSubValues :
           assign_d(sexa2deci(__getdms(raw, pre, trunc)[1],
                              __getdms(raw, pre, trunc)[2],
                              __getdms(raw, pre, trunc)[3], v, FALSE).val)
    /\ UNCHANGED callVars

\* the names assigned to ounit: the three units, and one that is not a unit
UnitNames == {"radians", "degrees", "hours", "arcseconds"}

\* self.ounit = v: the property of Angle checks the name; the property of
\* AlphaAngle and of DeltaAngle has no setter
__setounit ==
    /\ pc = "object"
    /\ op' = "ounit"
    /\ \E v \in UnitNames :
           /\ args' = <<v>>
           /\ IF cls # "Angle"
                  THEN raised' = "AttributeError" /\ UNCHANGED _ounit
              ELSE IF \A i \in 1 .. Len(_units) : _units[i] # v
                  THEN raised' = "ValueError" /\ UNCHANGED _ounit
              ELSE raised' = "none" /\ _ounit' = v
    /\ UNCHANGED <<raw, last>>
    /\ UNCHANGED callVars

\* the r of the other angle in a sum or a difference: MaxHalf half turns
HalfTurns == {integer(MaxHalf)}

\* the sum or difference x is no more than MaxHalf + 1 half turns
InReach(x) == abs(x.num) <= (MaxHalf + 1) * x.den

\* self = self + other and self = self - other, for another angle whose r is
\* o: the result is a new object of the class of self, made with r = self.r + o
__add__ ==
    /\ pc = "object"
    /\ op' = "arith" /\ _ounit' = "radians" /\ args' = <<>>
    /\ \E o \in HalfTurns :
           /\ InReach(plus(__getr(raw), o))
           /\ raw' = __init__(cls, "r", plus(__getr(raw), o))
           /\ last' = <<"r", plus(__getr(raw), o)>>
    /\ raised' = "none"
    /\ UNCHANGED callVars

__sub__ ==
    /\ pc = "object"
    /\ op' = "arith" /\ _ounit' = "radians" /\ args' = <<>>
    /\ \E o \in HalfTurns :
           /\ InReach(plus(__getr(raw), minus(o)))
           /\ raw' = __init__(cls, "r", plus(__getr(raw), minus(o)))
           /\ last' = <<"r", plus(__getr(raw), minus(o))>>
    /\ raised' = "none"
    /\ UNCHANGED callVars

NextAngle ==
    \/ __setr \/ __setd \/ __seth \/ __setarcs
    \/ AlphaAngle__sethms \/ AlphaAngle__setsign
    \/ AlphaAngle__sethh \/ AlphaAngle__setmm \/ AlphaAngle__setss
    \/ DeltaAngle__setdms \/ DeltaAngle__setsign
    \/ DeltaAngle__setdd \/ DeltaAngle__setmm \/ DeltaAngle__setss
    \/ __add__ \/ __sub__

SpecAngle == InitAngle /\ [][NextAngle]_vars

\* the output unit of an object: assignments to the value, to ounit, and sums
NextUnit ==
    \/ __setr \/ __setd \/ __seth \/ __setarcs
    \/ __setounit
    \/ __add__ \/ __sub__

SpecUnit == InitAngle /\ [][NextUnit]_vars

Init == InitNormalize \/ InitSexa \/ InitCompose \/ InitAngle

Next ==
    \/ CallNormalize \/ CallNormalizeAgain
    \/ CallDeci2sexa \/ CallFmtAngle \/ CallSexa2deciOnSexa
    \/ CallSexa2deci
    \/ NextAngle

Spec == Init /\ [][Next]_vars

----------------------------------------------------------------------------
(* Properties of normalize *)

\* the first call to normalize has returned a value
Normalized == pc = "normalized" /\ res # <<>>

\* the range passed is symmetric about zero, or starts at zero
Symmetric == lower[1] = -upper[1]
ZeroBased == lower[1] = 0

\* the modular reference of wraparound: lower + ((v - lower) mod (upper - lower))
ModRef(v, lo, up) == lo + ((v - lo) % (up - lo))

\* the triangular wave of period 2 * (upper - lower) through (lower, lower) and (upper, upper)
TriangleRef(v, lo, up) ==
    LET t == (v - lo) % (2 * (up - lo))
    IN  IF t <= up - lo THEN lo + t ELSE up - (t - (up - lo))

\* C1: for every range lower < upper and every value, normalize in wraparound
\* mode (b = False) returns a result r with lower <= r < upper.
C1_WrapInRange ==
    (pc = "normalized" /\ ~b /\ lower[1] < upper[1]) =>
        /\ res # <<>>
        /\ lower[1] <= res[1] /\ res[1] < upper[1]

\* C2: for every range symmetric about zero or with lower = 0, and every value,
\* normalize in bounce mode (b = True) returns a result r with lower <= r <= upper.
C2_BounceInRange ==
    (pc = "normalized" /\ b /\ lower[1] < upper[1] /\ (Symmetric \/ ZeroBased)) =>
        /\ res # <<>>
        /\ lower[1] <= res[1] /\ res[1] <= upper[1]

\* C3: normalize is idempotent: for every value, every range lower < upper and
\* either mode, normalizing the result again returns the same result.
C3_Idempotent ==
    (pc = "renormalized" /\ lower[1] < upper[1]) => res2 = res

\* C5: for a range with lower = 0 or symmetric about zero, wraparound normalize
\* equals lower + ((v - lower) mod (upper - lower)) for every v, however many
\* periods away; v = lower returns lower and v = upper returns lower.
C5_WrapIsModular ==
    (pc = "normalized" /\ ~b /\ lower[1] < upper[1] /\ (Symmetric \/ ZeroBased)) =>
        /\ res = <<ModRef(val, lower[1], upper[1])>>
        /\ (val = lower[1] \/ val = upper[1]) => res = <<lower[1]>>

\* C5 witness: a value more than two periods below a symmetric range, and a value
\* equal to upper, have been normalized in wraparound mode
C5_Witness ==
    /\ Normalized /\ ~b /\ Symmetric /\ upper[1] > 1
    /\ val < lower[1] - 2 * (upper[1] - lower[1])
    /\ res[1] = upper[1] - 1

\* C6: for a range symmetric about zero, bounce normalize is the triangular wave
\* of period 2 * (upper - lower): values in [lower, upper] are unchanged, a value
\* above upper by e <= upper - lower returns upper - e, a value below lower by
\* e <= upper - lower returns lower + e, and shifting v by a period changes nothing.
C6_BounceIsTriangular ==
    (pc = "normalized" /\ b /\ lower[1] < upper[1] /\ Symmetric) =>
        LET lo == lower[1]
            up == upper[1]
        IN  /\ res = <<TriangleRef(val, lo, up)>>
            /\ (lo <= val /\ val <= up) => res = <<val>>
            /\ (up < val /\ val <= up + (up - lo)) => res = <<up - (val - up)>>
            /\ (lo - (up - lo) <= val /\ val < lo) => res = <<lo + (lo - val)>>
            /\ normalize(val + 2 * (up - lo), lo, up, b) = Return(res[1])
            /\ normalize(val - 2 * (up - lo), lo, up, b) = Return(res[1])

\* C6 witness: a value more than a period above a symmetric range has bounced
\* to a value strictly inside the range and different from it
C6_Witness ==
    /\ Normalized /\ b /\ Symmetric /\ upper[1] > 1
    /\ val > upper[1] + 2 * (upper[1] - lower[1])
    /\ lower[1] < res[1] /\ res[1] < upper[1] /\ res[1] # 0

\* the ranges the tests call improper: in bounce mode every range that is not
\* symmetric about zero, in wraparound mode every range that is neither
\* zero-based nor symmetric about zero
Improper == IF b THEN ~Symmetric ELSE ~(Symmetric \/ ZeroBased)

\* C7: normalize rejects an improper range with ValueError; a proper range is
\* accepted and a value inside it is returned unchanged.
C7_ImproperRangeRejected ==
    (pc = "normalized" /\ lower[1] < upper[1]) =>
        /\ Improper => (raised = "ValueError" /\ res = <<>>)
        /\ (~Improper /\ lower[1] <= val /\ val < upper[1]) => res = <<val>>

\* a range was passed and its lower limit is not below its upper limit
BadRange == lower # None /\ upper # None /\ lower[1] >= upper[1]

\* C4: normalize fails with ValueError and returns no value whenever
\* lower >= upper, in wraparound mode and in bounce mode alike; deci2sexa and
\* fmt_angle called with such a range surface the same error.
C4_BadRangeRaises ==
    (BadRange /\ pc \in {"normalized", "decomposed", "formatted"}) =>
        /\ raised = "ValueError"
        /\ res = <<>> /\ sexa = <<>> /\ out = <<>>

----------------------------------------------------------------------------
(* Properties of deci2sexa *)

\* deci2sexa was called without a range and has returned
Decomposed == pc = "decomposed" /\ lower = None /\ upper = None /\ sexa # <<>>

\* the parts of abs(val) before any rounding: whole majors, whole minutes and
\* the sub part in grid steps
Major == abs(val) \div Unit
Minor == (abs(val) % Unit) \div (60 * SubDenom)
SubSteps == abs(val) % (60 * SubDenom)

\* the sub part lies within half a unit of the last kept digit below 60
NearSixty == 2 * (60 * SubDenom - SubSteps) * pow10(pre) <= SubDenom

\* the sub part returned is the number q
SubIs(q) == sexa[4].num = q * sexa[4].den

\* C8: with rounding at a precision >= 0, a sub part that rounds to 60 is
\* returned as 0 with the minor part incremented, and a minor part that thereby
\* becomes 60 is returned as 0 with the major part incremented: a value within
\* half a unit of the last kept digit below a whole major M + 1 gives
\* (sign, M + 1, 0, 0.0); a value the precision resolves keeps (M, 59, 59.9..).
C8_CarryPropagates ==
    (Decomposed /\ ~trunc /\ pre >= 0) =>
        /\ (NearSixty /\ Minor < 59) =>
               (sexa[2] = Major /\ sexa[3] = Minor + 1 /\ SubIs(0))
        /\ (NearSixty /\ Minor = 59) =>
               (sexa[1] = (IF val < 0 THEN -1 ELSE 1)
                /\ sexa[2] = Major + 1 /\ sexa[3] = 0 /\ SubIs(0))
        /\ ~NearSixty =>
               /\ sexa[2] = Major /\ sexa[3] = Minor
               /\ 2 * abs(sexa[4].num * SubDenom - SubSteps * sexa[4].den) * pow10(pre)
                      <= SubDenom * sexa[4].den
               /\ sexa[4].num < 60 * sexa[4].den

\* C8 witness: the last grid point below MaxMajor + 1 was decomposed at
\* precision 0 and came back as (1, MaxMajor + 1, 0, 0.0)
C8_Witness ==
    /\ Decomposed /\ ~trunc /\ pre = 0
    /\ val = (MaxMajor + 1) * Unit - 1
    /\ sexa = <<1, MaxMajor + 1, 0, [num |-> 0, den |-> 1]>>

\* C9: for every value, every precision including negative ones, rounding or
\* truncation, and no range, deci2sexa returns sign in {-1, +1}, a major part
\* >= 0, a minor part in 0 .. 59 and a sub part with 0 <= sub < 60.
C9_WellFormedTuple ==
    Decomposed =>
        /\ sexa[1] \in {-1, 1}
        /\ sexa[2] >= 0
        /\ sexa[3] \in 0 .. 59
        /\ 0 <= sexa[4].num /\ sexa[4].num < 60 * sexa[4].den

\* C10: with a range lower < upper supplied and upper_trim set, in either mode,
\* the three parts deci2sexa returns are non-negative magnitudes.
C10_PartsNonNegative ==
    (pc = "decomposed" /\ lower # None /\ upper # None /\ sexa # <<>>
        /\ lower[1] < upper[1] /\ upper_trim) =>
        /\ sexa[2] >= 0 /\ sexa[3] >= 0 /\ sexa[4].num >= 0

\* deci2sexa has returned a tuple, with or without a range
Returned == pc = "decomposed" /\ sexa # <<>>

\* C11: whenever the major, minor and sub parts returned by deci2sexa are all
\* zero, also for a negative value whose magnitude rounds or truncates to zero,
\* the sign returned is +1.
C11_NoNegativeZero ==
    (Returned /\ sexa[2] = 0 /\ sexa[3] = 0 /\ sexa[4].num = 0) => sexa[1] = 1

\* C11 witness: a negative value of one grid step was truncated to whole sub
\* parts and came back as all zeros with sign +1
C11_Witness ==
    /\ Decomposed /\ trunc /\ pre = 0 /\ val = -1
    /\ sexa = <<1, 0, 0, [num |-> 0, den |-> 1]>>

\* C13: with trunc set and a precision >= 0, deci2sexa never carries: the major
\* part is floor(|x|), the minor part is floor(frac(|x|) * 60) and the sub part
\* is the true sub part cut down, not rounded, to pre decimals; a value just
\* below a whole major keeps (M, 59, 59.9..).
C13_TruncNeverCarries ==
    (Decomposed /\ trunc /\ pre >= 0) =>
        /\ sexa[2] = Major
        /\ sexa[3] = Minor
        /\ sexa[4].den = pow10(pre)
        /\ sexa[4].num = (SubSteps * pow10(pre)) \div SubDenom

\* C13 witness: the last grid point below MaxMajor + 1 was truncated at
\* precision 0 and came back as (1, MaxMajor, 59, 59)
C13_Witness ==
    /\ Decomposed /\ trunc /\ pre = 0
    /\ val = (MaxMajor + 1) * Unit - 1
    /\ sexa = <<1, MaxMajor, 59, [num |-> 59, den |-> 1]>>

\* the tuple the same call returns without upper_trim
Untrimmed == deci2sexa(val, pre, trunc, lower, upper, b, FALSE).val

\* C14: with a range and upper_trim, a result whose major part equals upper has
\* its major part replaced by lower (a major part that reached upper by carry in
\* [0, upper) gives (1, 0, 0, 0.0)); without a range upper_trim has no effect,
\* and a result whose major part differs from upper is the same as without
\* upper_trim.
C14_UpperTrim ==
    (Returned /\ upper_trim) =>
        /\ (lower = None \/ upper = None) => sexa = Untrimmed
        /\ (lower # None /\ upper # None /\ Untrimmed[2] # upper[1]) => sexa = Untrimmed
        /\ (lower # None /\ upper # None /\ Untrimmed[2] = upper[1]) =>
               /\ sexa[2] = lower[1]
               /\ sexa[3] = Untrimmed[3] /\ sexa[4] = Untrimmed[4]
               /\ (~b /\ lower[1] = 0) => sexa = <<1, 0, 0, Sub(0, pre)>>

\* C14 witness: in the range [0, MaxMajor) a value half a grid unit below
\* MaxMajor was rounded at precision 0, carried to the major part MaxMajor and
\* was trimmed to (1, 0, 0, 0.0)
C14_Witness ==
    /\ Returned /\ upper_trim /\ ~b /\ ~trunc /\ pre = 0
    /\ lower = Some(0) /\ upper = Some(MaxMajor)
    /\ val = MaxMajor * Unit - 1
    /\ Untrimmed = <<1, MaxMajor, 0, [num |-> 0, den |-> 1]>>
    /\ sexa = <<1, 0, 0, [num |-> 0, den |-> 1]>>

----------------------------------------------------------------------------
(* Properties of sexa2deci *)

\* sexa2deci(*deci2sexa(val, pre)) has returned the fraction res[1]; its
\* denominator is 3600 times that of the sub part, so that it counts
\* res[1].num sub units of 1 / SubPerUnit
Recomposed == pc = "recomposed" /\ lower = None /\ upper = None /\ res # <<>>
SubPerUnit == res[1].den \div 3600

\* val, turned into sub parts of 10 ** -pre and rounded to the nearest one, a
\* tie to the even one
RoundedSub == (IF val < 0 THEN -1 ELSE 1) * round(abs(val) * pow10(pre), SubDenom)

C17_SignChecked ==
    pc = "composed" =>
        /\ sexa[1] \notin {-1, 1} => (raised = "ValueError" /\ res = <<>>)
        /\ sexa[1] \in {-1, 1} =>
               /\ raised = "none" /\ res # <<>>
               /\ res[1].den = 3600 * sexa[4].den
               /\ res[1].num =
                      (IF todeg THEN 15 ELSE 1) * sexa[1]
                          * (3600 * sexa[2] * sexa[4].den + 60 * sexa[3] * sexa[4].den
                             + sexa[4].num)

\* C17 witness: sexa2deci was called with the sign MaxSign, major and minor
\* parts that are not zero and todeg set, and raised ValueError
C17_Witness ==
    /\ pc = "composed" /\ todeg
    /\ sexa[1] = MaxSign /\ sexa[2] = MaxMajor /\ sexa[3] = 29
    /\ raised = "ValueError" /\ res = <<>>

----------------------------------------------------------------------------
(* Properties of fmt_angle *)

\* fmt_angle has returned the string out[1]
Formatted == pc = "formatted" /\ out # <<>>

\* the sexagesimal parts of normalize(val, lower, upper, b), rendered
PartsOfNormalized ==
    render(deci2sexa(val, pre, trunc, lower, upper, b, upper_trim), " ", " ", " ", pre)

\* C15: for every value, every range and either flag b, fmt_angle renders the
\* sexagesimal parts of normalize(val, lower, upper, b); in bounce mode a value
\* that normalizes to exactly upper is rendered as +upper.  Stated for the
\* ranges the tests call proper and the precisions the format accepts.
C15_HonoursPolicy ==
    (pc = "formatted" /\ lower # None /\ upper # None /\ pre >= 0
        /\ lower[1] < upper[1] /\ ~Improper) =>
        /\ Formatted
        /\ out[1] = PartsOfNormalized.val
        /\ (b /\ ~upper_trim /\ upper[1] \in 0 .. 9
              /\ normalize(val, lower[1] * Unit, upper[1] * Unit, b) = Return(upper[1] * Unit)) =>
               SubSeq(out[1], 1, 3) = "+0" \o Digit(upper[1])

\* the text that str.format produces for the sub part at precision pre: two
\* integer digits, and a point and pre decimals when pre > 0
SubText == IF pre = 0 THEN 2 ELSE pre + 3

\* C16: with the default separators fmt_angle returns the sign, the major part
\* in two digits, a space, the minor part in two digits, a space and the sub
\* part with two integer digits and exactly pre decimals (no point when
\* pre = 0), and nothing after the sub part.  Stated for calls without a range.
C16_DefaultLayout ==
    (pc = "formatted" /\ lower = None /\ upper = None /\ pre >= 0) =>
        /\ Formatted
        /\ Len(out[1]) = 1 + 2 + 1 + 2 + 1 + SubText
        /\ out[1][1] \in {"+", "-"}
        /\ out[1][4] = " " /\ out[1][7] = " "
        /\ out[1][Len(out[1])] # " "

----------------------------------------------------------------------------
(* Properties of the angle classes *)

\* x and y, both below 24, differ by a whole number of turns of 24
SameHour(x, y) == (x.num * y.den - y.num * x.den) % (24 * x.den * y.den) = 0

C19_DeltaRange ==
    (pc = "object" /\ cls = "DeltaAngle") =>
        /\ -90 * __getd(raw).den <= __getd(raw).num
        /\ __getd(raw).num <= 90 * __getd(raw).den
        /\ (last # <<>> /\ last[1] = "d") =>
               /\ last[2] = integer(-91) => __getd(raw) = integer(-89)
               /\ last[2] = integer(91) => __getd(raw) = integer(89)

\* the value that reading the accessor acc returns
Read(acc) ==
    IF acc = "r" THEN __getr(raw)
    ELSE IF acc = "d" THEN __getd(raw)
    ELSE IF acc = "h" THEN __geth(raw)
    ELSE __getarcs(raw)

\* the degrees that the value v of the accessor acc stands for
Described(acc, v) ==
    IF acc = "r" THEN lowest(r2d(v))
    ELSE IF acc = "d" THEN lowest(v)
    ELSE IF acc = "h" THEN lowest(h2d(v))
    ELSE lowest(arcs2d(v))

----------------------------------------------------------------------------
(* Properties of the output unit *)

\* what the ounit property returns before and after a step
ounit == __getounit(cls, _ounit)
ounit_after == __getounit(cls', _ounit')

\* v is one of the names of _units
IsUnit(v) == \E i \in 1 .. Len(_units) : _units[i] = v

\* C21: ounit changes only when a name of a unit is assigned to the ounit of an
\* Angle.  An assignment through r, d, h or arcs leaves it as it is; assigning
\* another name to it raises ValueError and leaves it as it is; the ounit of an
\* AlphaAngle is always hours and that of a DeltaAngle always degrees,
\* whatever the constructor was given, and assigning to it raises
\* AttributeError.  (A sum or a difference is a new object.)
C21_OunitFrame ==
    [][/\ op' = "assign" => ounit_after = ounit
       /\ (op' = "ounit" /\ cls = "Angle" /\ ~IsUnit(args'[1])) =>
              (raised' = "ValueError" /\ ounit_after = ounit)
       /\ (op' = "ounit" /\ cls = "Angle" /\ IsUnit(args'[1])) =>
              (raised' = "none" /\ ounit_after = args'[1])
       /\ (op' = "ounit" /\ cls # "Angle") =>
              (raised' = "AttributeError" /\ ounit_after = ounit)
       /\ cls = "AlphaAngle" => (ounit = "hours" /\ ounit_after = "hours")
       /\ cls = "DeltaAngle" => (ounit = "degrees" /\ ounit_after = "degrees")
       /\ (ounit_after # ounit /\ op' # "arith") =>
              (op' = "ounit" /\ cls = "Angle" /\ IsUnit(args'[1]))]_vars

\* C21 witness: an Angle whose ounit had been set to hours was then assigned
\* through d, and refused the name arcseconds: ounit is still hours
C21_Witness ==
    /\ pc = "object" /\ cls = "Angle"
    /\ last # <<>> /\ last[1] = "d"
    /\ op = "ounit" /\ args = <<"arcseconds">>
    /\ raised = "ValueError"
    /\ ounit = "hours"

----------------------------------------------------------------------------
(* Properties of the tuple assignments *)

\* the tuple t has four elements and a sign of -1 or +1
WellFormed(t) == Len(t) = 4 /\ t[1] \in {-1, 1}

\* the value that sexa2deci composes from the tuple t
Composed(t) == lowest(sexa2deci(t[1], t[2], t[3], t[4], FALSE).val)

\* C30: assigning a tuple of four elements with a sign of -1 or +1 to the dms
\* of a DeltaAngle sets d to the composed value, as assigning one to the hms of
\* an AlphaAngle sets h to the composed value (modulo 24); any other tuple
\* raises ValueError and leaves the stored angle as it was.
C30_TupleAssignment ==
    [][(op' = "assign" /\ args' # <<>>) =>
           IF WellFormed(args'[1])
               THEN /\ raised' = "none"
                    /\ cls = "DeltaAngle" => __getd(raw') = Composed(args'[1])
                    /\ cls = "AlphaAngle" =>
                           __geth(raw') = normalize_number(Composed(args'[1]), 0, 24, 1, FALSE)
               ELSE raised' = "ValueError" /\ raw' = raw]_vars

----------------------------------------------------------------------------
(* Properties of phmsdms *)

\* phmsdms has returned, or raised
Parsed == pc \in {"parsed", "parsed_composed"}

\* the parts that the loop over hdlist found in the string
Looped ==
    for_valun(LoopState(<<None, None, None>>, "None", "none"), pattern1_findall(args[1], 1), 1)

\* of the parts found, those below zero, and those written with a minus sign
BelowZero(parts) == {i \in 1 .. 3 : parts[i] # None /\ parts[i][1].neg /\ parts[i][1].num > 0}
WrittenMinus(parts) == {i \in 1 .. 3 : parts[i] # None /\ parts[i][1].neg}

\* the magnitude of a part found, 0 for a part that was not found
Magnitude(part) == IF part = None THEN integer(0) ELSE frac(part[1].num, part[1].den)

\* what C28 says of a string in which the loop found the parts, n of them
\* below zero
OneNegativePart(parts, n) ==
    /\ n >= 2 => (raised = "ValueError" /\ res = <<>>)
    /\ n = 1 =>
           /\ raised = "none" /\ res # <<>>
           /\ res[1].sign = -1
           /\ \A i \in 1 .. 3 : res[1].vals[i] = Magnitude(parts[i])
    /\ n = 0 =>
           /\ raised = "none" /\ res # <<>>
           /\ res[1].sign = 1

\* C28: when the string yields its three parts, phmsdms raises ValueError if
\* two or more of them are negative; with exactly one negative part it returns
\* sign = -1 and the absolute values of all parts in vals; with none it
\* returns sign = +1.
C28_OneNegativePart ==
    (pc = "parsed" /\ (raised = "none" \/ Looped.err = "none")) =>
        OneNegativePart(Looped.parts, Cardinality(BelowZero(Looped.parts)))

\* C28 witness: the string of test_phmsdms with two negative parts was refused
C28_Witness ==
    /\ pc = "parsed" /\ args = <<"-12:-13:12s">>
    /\ raised = "ValueError" /\ res = <<>>
    /\ Cardinality(BelowZero(Looped.parts)) = 2

\* C29: whenever a part of the string is written with a minus sign, a zero
\* included, phmsdms returns sign = -1, and what sexa2deci composes from the
\* sign and the vals is negative unless all parts are zero.
C29_MinusSignKept ==
    (Parsed /\ raised = "none" /\ WrittenMinus(res[1].parts) # {}) =>
        /\ res[1].sign = -1
        /\ (pc = "parsed_composed" /\ res2[1].num # 0) => res2[1].num < 0

----------------------------------------------------------------------------
(* Properties of the constructor *)

\* the keyword arguments without the keywords not in keep
only(kwargs, keep) == [k \in DOMAIN kwargs |-> IF k \in keep THEN kwargs[k] ELSE <<>>]

\* the input that wins: sg over r, r over d and h, d over h; mm and ss belong
\* to d or h
winner(kwargs) ==
    IF kwargs["sg"] # <<>> THEN {"sg"}
    ELSE IF kwargs["r"] # <<>> THEN {"r"}
    ELSE IF kwargs["d"] # <<>> THEN {"d", "mm", "ss"}
    ELSE IF kwargs["h"] # <<>> THEN {"h", "mm", "ss"}
    ELSE {}

\* the unit of the input that wins
unit_of(kwargs) ==
    IF kwargs["sg"] # <<>> THEN phmsdms(kwargs["sg"][1]).val.units
    ELSE IF kwargs["r"] # <<>> THEN "radians"
    ELSE IF kwargs["d"] # <<>> THEN "degrees"
    ELSE IF kwargs["h"] # <<>> THEN "hours"
    ELSE "radians"

\* the constructor has returned or raised
Built == pc = "constructed"

\* the object is the one that alone describes, built from the winning input
\* only: the same exception if that one raises, else the same value and the
\* unit of the winning input, with a warning when sg or r came with others
SameAs(alone, kwargs) ==
    /\ raised = alone.err
    /\ raised = "none" =>
           /\ raw = alone.raw
           /\ _ounit = alone.ounit
           /\ _ounit = unit_of(kwargs)
           /\ (winner(kwargs) \in {{"sg"}, {"r"}} /\ Cardinality(given(kwargs)) > 1)
                  => warned

\* C22: when several inputs are given to the constructor, sg wins over r, r
\* over d and h, and d over h: the value and the output unit are those of the
\* object constructed from the winning input alone (the unit parsed from sg,
\* radians for r, degrees for d, hours for h), a warning and no exception is
\* issued when sg or r is given with other inputs, and a keyword outside
\* (r, d, h, mm, ss, sg) raises TypeError and constructs nothing.  A string sg
\* that cannot be constructed from alone raises the same exception with others.
C22_Precedence ==
    Built =>
        IF "x" \in given(args[2]) THEN raised = "TypeError" /\ cls = "none"
        ELSE SameAs(Angle__init__(args[1], only(args[2], winner(args[2]))), args[2])

\* an Angle was constructed from sg, r, d, h, mm and ss at once, as 12 hours,
\* with a warning
C22_Witness ==
    /\ Built /\ raised = "none" /\ cls = "Angle"
    /\ given(args[2]) = _keyws
    /\ args[2]["sg"] = <<"12h">>
    /\ raw = integer(1) /\ _ounit = "hours" /\ warned

----------------------------------------------------------------------------
(* Properties of sep and bear *)

\* the two points passed, as vectors
First == from_s(1, args[1], args[2])
Second == from_s(1, args[3], args[4])

\* sep has returned for the points in both orders
SeparatedBoth == pc = "separated_both"

\* C23: the separation is symmetric, sep(a1, b1, a2, b2) = sep(a2, b2, a1, b1),
\* and so are the dot product and the modulus of the cross product of the two
\* unit vectors that it is computed from.
C23_SepSymmetric ==
    SeparatedBoth =>
        /\ res = res2
        /\ dot(First, Second) = dot(Second, First)
        /\ mod(cross(First, Second)) = mod(cross(Second, First))

\* two points a quarter turn apart, neither on the axis of the other, were
\* separated in both orders
C23_Witness ==
    /\ SeparatedBoth
    /\ res = <<frac(1, 2)>>
    /\ First.z = 1 /\ Second.y = -1

\* sep has returned
Separated == pc \in {"separated", "separated_both"}

AtPole == cos(args[2]) = 0

\* C25: when the first point is at a pole, bear returns exactly 0.0 whatever
\* the second point is, and warns; it never raises, and it does not warn when
\* the first point is not at a pole.
C25_PoleSentinel ==
    pc = "borne" =>
        /\ raised = "none"
        /\ AtPole => res = <<integer(0)>> /\ warned
        /\ ~AtPole => ~warned

\* bear warned and returned 0.0 for a first point at the south pole and a
\* second point on the equator
C25_Witness ==
    /\ pc = "borne"
    /\ args[2] = frac(-1, 2) /\ args[4] = integer(0)
    /\ res = <<integer(0)>> /\ warned

----------------------------------------------------------------------------
(* Properties of AngularPosition *)

\* the position was constructed and nothing was assigned to it yet
Positioned == pc = "position" /\ op = "__init__"

\* the latitude d, in degrees, lies beyond a pole
Beyond(d) == d.num > 90 * d.den \/ d.num < -90 * d.den

\* the longitude of h hours in degrees, half a turn further if turn is true,
\* wrapped into [0, 360)
Wrapped(h, turn) ==
    integer(normalize(15 * h.num + (IF turn THEN 180 ELSE 0), 0, 360, FALSE).val)

\* the latitude d, a whole number of degrees, reflected into [-90, 90]
Reflected(d) == integer(normalize(d.num, -90, 90, TRUE).val)

\* C26: the reflection across the pole is coupled.  A position given with a
\* latitude beyond a pole has the latitude reflected into [-90, 90] degrees
\* and the longitude half a turn further, (180, 91) becoming (0, 89); with a
\* latitude in range it keeps its longitude, wrapped into [0, 360).
C26_PoleReflection ==
    Positioned =>
        /\ __getd(delta[1]) = Reflected(args[2])
        /\ __getd(alpha[1]) = Wrapped(args[1], Beyond(args[2]))

\* the components of the position do not change, or the one of them named
\* does not
SameAlpha == alpha' = alpha
SameDelta == delta' = delta

\* C27: an assignment of a value to the longitude of a position leaves its
\* latitude as it is, an assignment of a latitude within [-90, 90] degrees
\* leaves its longitude as it is, and an assignment to alpha or delta of an
\* object that is no AlphaAngle or no DeltaAngle raises TypeError and leaves
\* both as they are.
C27_PositionFrame ==
    [][/\ op' = "alpha.d" => SameDelta
       /\ (op' = "delta.d" /\ ~Beyond(args'[1])) => SameAlpha
       /\ (op' = "alpha" /\ args'[1] # "AlphaAngle") =>
              raised' = "TypeError" /\ SameAlpha /\ SameDelta
       /\ (op' = "delta" /\ args'[1] # "DeltaAngle") =>
              raised' = "TypeError" /\ SameAlpha /\ SameDelta]_vars

\* a DeltaAngle was assigned to alpha, which raised TypeError, after the
\* longitude had been set to 345 degrees and the latitude to -45 degrees
C27_Witness ==
    /\ pc = "position" /\ op = "alpha"
    /\ args = <<"DeltaAngle", integer(0)>>
    /\ raised = "TypeError"
    /\ __getd(alpha[1]) = integer(345)
    /\ __getd(delta[1]) = integer(-45)

====
